---- MODULE Spec2Model ----
(***************************************************************************)
(* fetch HTTP HealthCheck (fetch.go): the validation loop of main, the     *)
(* perpetual polling loop with its per-cycle goroutine fan-out, the        *)
(* sync.Mutex guarding the Sites map, the sync.WaitGroup barrier, the      *)
(* report loop, and the probe function check.  The sequential variant of   *)
(* the polling loop (README.md) runs beside it on the same probe outcomes. *)
(*                                                                         *)
(* Headers and Body of a HealthCheck are left out: check attaches them to  *)
(* the request and nothing else reads them.  The counters are float64 in   *)
(* the source; they only ever hold small whole numbers, which float64      *)
(* represents exactly, so they are integers here; the division and the     *)
(* multiplication of Result.Uptime are float64 operations and are modelled *)
(* bit by bit.                                                             *)
(***************************************************************************)
EXTENDS Integers, Sequences, FiniteSets, TLC

VARIABLES
    healthcheck,  \* []HealthCheck after yaml.Unmarshal (hostname filled by main)
    Sites,        \* status.Sites: hostname -> Result
    lock,         \* status.lock: 0 when free, else the index of the holding goroutine
    wg,           \* the cycle's WaitGroup counter
    mainpc,       \* position of main
    vi,           \* index of the validation loop (i of "for i, hc := range")
    si,           \* index of the fan-out loop
    exitCode,     \* argument of os.Exit, 0 while running
    cycle,        \* number of iterations of the polling loop started
    tpc,          \* position of the i-th goroutine of the fan-out
    arg,          \* the goroutine's parameter hc, as an index into healthcheck
    success,      \* the goroutine's local "success"
    reg,          \* the goroutine's register during a ++ (load, add, store)
    out,          \* the lines printed by the latest report loop: line -> times printed
    reports,      \* number of report loops run
    probed,       \* history: number of check calls returned, per descriptor
    ups,          \* history: number of check calls that returned true, per descriptor
    before,       \* history: Sites as it was when goroutine i acquired the lock
    HealthCheckStatus, \* the map of the sequential variant, run on the same outcomes
    probe         \* the call of check or of Uptime under test (CheckSpec, UptimeSpec)

vars == <<healthcheck, Sites, lock, wg, mainpc, vi, si, exitCode, cycle, tpc,
          arg, success, reg, out, reports, probed, ups, before,
          HealthCheckStatus, probe>>

\* ---------------------------------------------------------------- bounds
MaxDescs == 2
MaxCycles == 2
MaxAttempt == 40

\* ------------------------------------------------------ program constants
responseTimeout == 500
outputTimeout == 15

\* --------------------------------------------------------- configuration
HC(name, u, method) == [Name |-> name, URL |-> u, Method |-> method, hostname |-> ""]

\* The descriptors a configuration file is drawn from: two endpoints on the
\* same host (one with a port), one on another host, a relative reference,
\* and three entries the validation loop refuses (no name, no url, a
\* malformed url).
EntryList ==
    << HC("one", "http://a.example.com/x", ""),
       HC("two", "http://a.example.com:8080/y", "POST"),
       HC("b", "http://b.example.com/", "GET"),
       HC("rel", "/health", ""),
       HC("", "http://a.example.com/x", ""),
       HC("nourl", "", ""),
       HC("bad", "http://[::1", "") >>

Entries == { EntryList[k] : k \in 1..Len(EntryList) }

EntryIndex(e) == CHOOSE k \in 1..Len(EntryList) : EntryList[k] = e

\* net/url Parse on the URLs above: err is set for a malformed URL (an
\* unterminated IPv6 literal); a relative reference parses with an empty Host.
urlParse(u) ==
    CASE u = "http://a.example.com/x" ->
            [err |-> FALSE, scheme |-> "http", hostname |-> "a.example.com", port |-> ""]
      [] u = "http://a.example.com:8080/y" ->
            [err |-> FALSE, scheme |-> "http", hostname |-> "a.example.com", port |-> "8080"]
      [] u = "http://b.example.com/" ->
            [err |-> FALSE, scheme |-> "http", hostname |-> "b.example.com", port |-> ""]
      [] u = "/health" ->
            [err |-> FALSE, scheme |-> "", hostname |-> "", port |-> ""]
      [] u = "" ->
            [err |-> FALSE, scheme |-> "", hostname |-> "", port |-> ""]
      [] OTHER ->
            [err |-> TRUE, scheme |-> "", hostname |-> "", port |-> ""]

\* The Host field of a parsed URL: host or host:port
HostField(address) ==
    IF address.port = "" THEN address.hostname
    ELSE address.hostname \o ":" \o address.port

\* Mutant of Hostname: the port is kept (address.Host used for the key)
HostnameKeepsPort(address) == HostField(address)

\* (*URL).Hostname: the Host field with the port stripped
Hostname(address) == address.hostname

\* The "Sanity checks" of the validation loop: a missing name or url
SanityErrNameOnly(hc) == hc.Name = ""

SanityErr(hc) == hc.Name = "" \/ hc.URL = ""

\* The entries the validation loop accepts
ValidEntries == { e \in Entries : ~SanityErr(e) /\ ~urlParse(e.URL).err }

\* A configuration file lists up to MaxDescs of these endpoints, each once.  A
\* refused entry stands at any position; the accepted ones keep the order of
\* EntryList among themselves (goroutines and buckets of accepted entries are
\* interchangeable, so their permutations add no behaviour).
Configs ==
    UNION { { c \in [1..n -> Entries] :
                \A i, j \in 1..n :
                    /\ c[i] = c[j] => i = j
                    /\ (i < j /\ c[i] \in ValidEntries /\ c[j] \in ValidEntries)
                          => EntryIndex(c[i]) < EntryIndex(c[j]) } :
            n \in 0..MaxDescs }

\* new(Result)
NewResult == [Attempt |-> 0, Success |-> 0]

\* ------------------------------------------------------ float64 arithmetic
\* Result.Uptime computes in float64.  A positive float64 is kept here as
\* [m, frac]: the significand m, a sequence of bits (most significant first),
\* and the number frac of those bits that stand after the binary point, so
\* that the value is m * 2^(-frac).  IEEE 754 binary64 keeps 53 significant
\* bits and rounds to nearest, ties to even.
F64Bits == 53

Zeros(n) == [k \in 1..n |-> 0]

\* b + 1: the trailing ones become zeros and the zero before them a one
BitsInc(b) ==
    LET zeros == { k \in 1..Len(b) : b[k] = 0 } IN
    IF zeros = {} THEN <<1>> \o Zeros(Len(b))
    ELSE LET z == CHOOSE k \in zeros : \A j \in zeros : j <= k IN
         [k \in 1..Len(b) |-> IF k < z THEN b[k] ELSE IF k = z THEN 1 ELSE 0]

\* The carry into position k of a + b (sequences of the same length): some
\* position to the right generates a carry and every position between
\* propagates it
Carry(a, b, k) ==
    \E g \in (k + 1)..Len(a) :
        /\ a[g] = 1 /\ b[g] = 1
        /\ \A t \in (k + 1)..(g - 1) : a[t] + b[t] = 1

BitsAdd(x, y) ==
    LET n == IF Len(x) >= Len(y) THEN Len(x) ELSE Len(y)
        a == Zeros(n - Len(x)) \o x
        b == Zeros(n - Len(y)) \o y
        sum == [k \in 1..n |-> (a[k] + b[k] + (IF Carry(a, b, k) THEN 1 ELSE 0)) % 2]
    IN IF Carry(a, b, 0) THEN <<1>> \o sum ELSE sum

RECURSIVE BitsToInt(_)
BitsToInt(b) ==
    IF b = <<>> THEN 0 ELSE 2 * BitsToInt(SubSeq(b, 1, Len(b) - 1)) + b[Len(b)]

\* Round the bit sequence b to its first `keep` bits, to nearest, ties to even;
\* sticky says that the exact value has non-zero bits beyond b.
BitsRound(b, keep, sticky) ==
    IF Len(b) <= keep THEN b
    ELSE LET kept == SubSeq(b, 1, keep)
             half == b[keep + 1] = 1
             rest == sticky \/ \E k \in (keep + 2)..Len(b) : b[k] = 1
         IN IF half /\ (rest \/ kept[keep] = 1) THEN BitsInc(kept) ELSE kept

\* 2^k mod d, by repeated squaring
RECURSIVE Pow2Mod(_, _)
Pow2Mod(k, d) ==
    IF k = 0 THEN 1 % d
    ELSE LET h == Pow2Mod(k \div 2, d) IN
         IF k % 2 = 0 THEN (h * h) % d ELSE (2 * ((h * h) % d)) % d

\* The remainder left after k bits of the binary expansion of r / d (0 <= r < d)
QuotRem(r, d, k) == (r * Pow2Mod(k, d)) % d

\* The first n bits of the binary expansion of r / d (0 <= r < d): bit k is
\* the quotient of twice the remainder left after k - 1 bits
QuotBits(r, d, n) == [k \in 1..n |-> (2 * QuotRem(r, d, k - 1)) \div d]

\* The least e with x * 2^e >= d (0 < x <= d)
RECURSIVE Normalise(_, _)
Normalise(x, d) == IF x >= d THEN 0 ELSE 1 + Normalise(2 * x, d)

RECURSIVE Pow2(_)
Pow2(e) == IF e = 0 THEN 1 ELSE 2 * Pow2(e - 1)

\* float64 x / d for whole numbers 0 <= x <= d, d > 0: the quotient is
\* developed to 53 bits and a guard bit and rounded
F64Div(x, d) ==
    IF x = 0 THEN [m |-> <<>>, frac |-> 0]
    ELSE LET e == Normalise(x, d)
             first == x * Pow2(e) - d
         IN [m |-> BitsRound(<<1>> \o QuotBits(first, d, F64Bits), F64Bits,
                             QuotRem(first, d, F64Bits) # 0),
             frac |-> e + F64Bits - 1]

\* float64 100 * y: the exact product 64y + 32y + 4y, rounded to 53 bits
F64Times100(y) ==
    LET exact == BitsAdd(BitsAdd(y.m \o Zeros(6), y.m \o Zeros(5)), y.m \o Zeros(2))
        drop == IF Len(exact) > F64Bits THEN Len(exact) - F64Bits ELSE 0
    IN [m |-> BitsRound(exact, F64Bits, FALSE), frac |-> y.frac - drop]

\* int(math.Round(y)) for y >= 0: halves are rounded away from zero
F64RoundToInt(y) ==
    LET n == IF Len(y.m) > y.frac THEN Len(y.m) ELSE y.frac + 1
        b == Zeros(n - Len(y.m)) \o y.m
        whole == SubSeq(b, 1, n - y.frac)
    IN IF y.frac <= 0 THEN BitsToInt(y.m) * Pow2(0 - y.frac)
       ELSE BitsToInt(whole) + b[n - y.frac + 1]

\* Result.Uptime: int(math.Round(100 * (r.Success / r.Attempt)))
Uptime(r) ==
    IF r.Attempt = 0 THEN 0
    ELSE F64RoundToInt(F64Times100(F64Div(r.Success, r.Attempt)))

\* res.Uptime() for the counters the polling loop can reach, computed once
\* and looked up by the report loop
UptimeOf ==
    [a \in 0..(MaxCycles * MaxDescs) |->
        [b \in 0..a |-> Uptime([Attempt |-> a, Success |-> b])]]

resUptime(res) ==
    IF res.Attempt \in DOMAIN UptimeOf /\ res.Success \in DOMAIN UptimeOf[res.Attempt]
    THEN UptimeOf[res.Attempt][res.Success]
    ELSE Uptime(res)

\* -------------------------------------------------------------- check
\* What the network can answer to one request: a transport error (DNS failure,
\* connection refused, ...) or a response whose headers arrive `latency` ms
\* after the request started.  timerFirst settles the race between the
\* client's timer and a response arriving exactly at the deadline.
Statuses == {199, 200, 204, 299, 300, 404, 500}
Latencies == {20, 499, 500, 501, 2000}
Responses == [transport : {"error", "response"}, latency : Latencies,
              timerFirst : BOOLEAN, status : Statuses]

\* net/http validMethod on the methods used here: a method is a token
ValidMethod(m) == m \in {"GET", "POST", "HEAD", "PUT", "DELETE"}

\* http.Client{Timeout: responseTimeout ms}: the request is cancelled when the
\* timer fires, and Do then returns an error
TimedOut(resp) ==
    \/ resp.latency > responseTimeout
    \/ resp.latency = responseTimeout /\ resp.timerFirst

\* http.NewRequest(method, site.URL, body): err for an invalid method or a URL
\* that does not parse
NewRequestErr(method, u) == ~ValidMethod(method) \/ urlParse(u).err

\* client.Do(req): err for a URL without a supported scheme or without a host,
\* for a transport error, and for a timeout
ClientDoErr(u, resp) ==
    \/ urlParse(u).scheme \notin {"http", "https"}
    \/ HostField(urlParse(u)) = ""
    \/ resp.transport = "error"
    \/ TimedOut(resp)

\* Mutant of check: the upper bound of the status range is off by one
checkStatusOffByOne(site, resp) ==
    LET method == IF site.Method # "" THEN site.Method ELSE "GET" IN
    IF NewRequestErr(method, site.URL) THEN FALSE
    ELSE IF ClientDoErr(site.URL, resp) THEN FALSE
    ELSE IF resp.status >= 200 /\ resp.status <= 300 THEN TRUE
    ELSE FALSE

\* func check(site HealthCheck) bool
check(site, resp) ==
    LET method == IF site.Method # "" THEN site.Method ELSE "GET" IN
    IF NewRequestErr(method, site.URL) THEN FALSE
    ELSE IF ClientDoErr(site.URL, resp) THEN FALSE
    ELSE IF resp.status >= 200 /\ resp.status <= 299 THEN TRUE
    ELSE FALSE

\* What check can return for each entry, over all the network's answers (check
\* does not read the hostname field that main fills in)
CheckOutcomes == [e \in Entries |-> { check(e, resp) : resp \in Responses }]

\* ------------------------------------- the sequential variant (README.md)
\* map[string]int{"count": 0, "success": 0}
NewStatus == [count |-> 0, success |-> 0]

\* success := check(hc); HealthCheckStatus[hc.hostname]["count"]++;
\* if success { HealthCheckStatus[hc.hostname]["success"]++ }
SeqRecord(st, hc, ok) ==
    [st EXCEPT ![hc.hostname] = [count |-> @.count + 1,
                                 success |-> @.success + (IF ok THEN 1 ELSE 0)]]

\* "for _, hc := range healthcheck" from entry k on, where check returns
\* oks[k] for entry k
RECURSIVE SeqCycle(_, _, _)
SeqCycle(st, k, oks) ==
    IF k > Len(healthcheck) THEN st
    ELSE SeqCycle(SeqRecord(st, healthcheck[k], oks[k]), k + 1, oks)

\* The conversion of NaN to int is implementation-dependent in Go
IntOfNaN == CHOOSE n \in Int : TRUE

\* uptime := int(math.Round(100 * (float64(success) / float64(count)))): there
\* is no test for count = 0, where the quotient is NaN
SeqUptime(st) ==
    IF st.count = 0 THEN IntOfNaN
    ELSE F64RoundToInt(F64Times100(F64Div(st.success, st.count)))

\* ------------------------------------------------------------ initial state
\* Nothing printed yet
NoLines == [line \in {} |-> 0]

Descs == 1..Len(healthcheck)

NoProbe == [site |-> HC("one", "http://a.example.com/x", ""),
            resp |-> [transport |-> "error", latency |-> 20,
                      timerFirst |-> FALSE, status |-> 200],
            called |-> FALSE, result |-> FALSE]

\* main, after yaml.Unmarshal and status := &Results{...}
InitMain ==
    /\ Sites = [h \in {} |-> NewResult]
    /\ lock = 0
    /\ wg = 0
    /\ mainpc = "validate"
    /\ vi = 1
    /\ si = 1
    /\ exitCode = 0
    /\ cycle = 0
    /\ tpc = [i \in 1..MaxDescs |-> "idle"]
    /\ success = [i \in 1..MaxDescs |-> FALSE]
    /\ reg = [i \in 1..MaxDescs |-> 0]
    /\ arg = [i \in 1..MaxDescs |-> 0]
    /\ out = NoLines
    /\ HealthCheckStatus = [h \in {} |-> NewStatus]
    /\ reports = 0
    /\ probed = [i \in 1..MaxDescs |-> 0]
    /\ ups = [i \in 1..MaxDescs |-> 0]
    /\ before = [i \in 1..MaxDescs |-> <<>>]

Init ==
    /\ healthcheck \in Configs
    /\ probe = NoProbe
    /\ InitMain

\* ------------------------------------------------------------ validation
taskVars == <<tpc, arg, success, reg, probed, ups, before, lock>>

\* os.Exit(-1)
Exit ==
    /\ mainpc' = "exited"
    /\ exitCode' = -1
    /\ UNCHANGED <<healthcheck, Sites, HealthCheckStatus, vi>>

\* One iteration of "for i, hc := range healthcheck": the sanity checks, then
\* the hostname and its bucket.
ValidateEntry ==
    /\ mainpc = "validate"
    /\ vi <= Len(healthcheck)
    /\ LET hc == healthcheck[vi]
           address == urlParse(hc.URL) IN
       IF SanityErr(hc) THEN Exit
       ELSE IF address.err THEN Exit
       ELSE /\ healthcheck' = [healthcheck EXCEPT ![vi].hostname = Hostname(address)]
            /\ Sites' = [h \in DOMAIN Sites \cup {Hostname(address)} |->
                            IF h = Hostname(address) THEN NewResult ELSE Sites[h]]
            /\ HealthCheckStatus' =
                  [h \in DOMAIN HealthCheckStatus \cup {Hostname(address)} |->
                      IF h = Hostname(address) THEN NewStatus ELSE HealthCheckStatus[h]]
            /\ vi' = vi + 1
            /\ UNCHANGED <<mainpc, exitCode>>
    /\ UNCHANGED <<si, cycle, wg, out, reports, probe>>
    /\ UNCHANGED taskVars

\* The range loop is over: main enters "for {".
ValidateDone ==
    /\ mainpc = "validate"
    /\ vi > Len(healthcheck)
    /\ mainpc' = "cycle"
    /\ UNCHANGED <<healthcheck, Sites, HealthCheckStatus, vi, si, exitCode, cycle, wg, out,
                 reports, probe>>
    /\ UNCHANGED taskVars

\* ------------------------------------------------------------ polling loop
\* Top of "for {": wg := new(sync.WaitGroup); wg.Add(len(healthcheck))
StartCycle ==
    /\ mainpc = "cycle"
    /\ cycle' = cycle + 1
    /\ wg' = Len(healthcheck)
    /\ si' = 1
    /\ mainpc' = "spawn"
    /\ UNCHANGED <<healthcheck, Sites, HealthCheckStatus, vi, exitCode, out, reports, probe>>
    /\ UNCHANGED taskVars

\* Mutant of Spawn: the goroutine reads the loop variable instead of getting
\* its own copy, and finds the last descriptor in it
SpawnSharedLoopVar ==
    /\ mainpc = "spawn"
    /\ si <= Len(healthcheck)
    /\ tpc' = [tpc EXCEPT ![si] = "check"]
    /\ arg' = [arg EXCEPT ![si] = Len(healthcheck)]
    /\ si' = si + 1
    /\ UNCHANGED <<healthcheck, Sites, HealthCheckStatus, mainpc, vi, exitCode, cycle, wg, out,
                 reports, probe>>
    /\ UNCHANGED <<success, reg, probed, ups, before, lock>>

\* One iteration of the fan-out loop: go func(hc HealthCheck){...}(hc)
Spawn ==
    /\ mainpc = "spawn"
    /\ si <= Len(healthcheck)
    /\ tpc' = [tpc EXCEPT ![si] = "check"]
    /\ arg' = [arg EXCEPT ![si] = si]
    /\ si' = si + 1
    /\ UNCHANGED <<healthcheck, Sites, HealthCheckStatus, mainpc, vi, exitCode, cycle, wg, out,
                 reports, probe>>
    /\ UNCHANGED <<success, reg, probed, ups, before, lock>>

\* The fan-out loop is over: main reaches wg.Wait()
SpawnDone ==
    /\ mainpc = "spawn"
    /\ si > Len(healthcheck)
    /\ mainpc' = "wait"
    /\ UNCHANGED <<healthcheck, Sites, HealthCheckStatus, vi, si, exitCode, cycle, wg, out,
                 reports, probe>>
    /\ UNCHANGED taskVars

\* Mutant of Wait: main does not wait for the counter to reach zero
WaitNoBarrier ==
    /\ mainpc = "wait"
    /\ mainpc' = "report"
    /\ UNCHANGED <<healthcheck, Sites, HealthCheckStatus, vi, si, exitCode, cycle, wg, out,
                 reports, probe>>
    /\ UNCHANGED taskVars

\* wg.Wait() returns once the counter is zero
Wait ==
    /\ mainpc = "wait"
    /\ wg = 0
    /\ mainpc' = "report"
    /\ UNCHANGED <<healthcheck, Sites, HealthCheckStatus, vi, si, exitCode, cycle, wg, out,
                 reports, probe>>
    /\ UNCHANGED taskVars

\* Mutant of Report: the loop ranges over the descriptors, not over the map
ReportPerDescriptor ==
    /\ mainpc = "report"
    /\ out' = [line \in { <<host, resUptime(Sites[host])>> : host \in DOMAIN Sites } |->
                  Cardinality({ i \in Descs : healthcheck[i].hostname = line[1] })]
    /\ HealthCheckStatus' = SeqCycle(HealthCheckStatus, 1, success)
    /\ reports' = reports + 1
    /\ mainpc' = "sleep"
    /\ UNCHANGED <<healthcheck, Sites, vi, si, exitCode, cycle, wg, probe>>
    /\ UNCHANGED taskVars

\* for host, res := range status.Sites { Printf(host, res.Uptime()) }: the map
\* is read without the lock, and each key is visited once.  The sequential
\* variant has by now run its own loop over the descriptors, with the
\* outcomes the goroutines of this cycle got.
Report ==
    /\ mainpc = "report"
    /\ out' = [line \in { <<host, resUptime(Sites[host])>> : host \in DOMAIN Sites } |-> 1]
    /\ HealthCheckStatus' = SeqCycle(HealthCheckStatus, 1, success)
    /\ reports' = reports + 1
    /\ mainpc' = "sleep"
    /\ UNCHANGED <<healthcheck, Sites, vi, si, exitCode, cycle, wg, probe>>
    /\ UNCHANGED taskVars

\* time.Sleep(outputTimeout seconds), then back to the top of the loop
Sleep ==
    /\ mainpc = "sleep"
    /\ cycle < MaxCycles
    /\ mainpc' = "cycle"
    /\ UNCHANGED <<healthcheck, Sites, HealthCheckStatus, vi, si, exitCode, cycle, wg, out,
                 reports, probe>>
    /\ UNCHANGED taskVars

\* --------------------------------------------------------- probe goroutine
host(i) == healthcheck[arg[i]].hostname

taskFrame ==
    UNCHANGED <<healthcheck, HealthCheckStatus, mainpc, vi, si, exitCode, cycle, arg, out,
                reports, probe>>

\* success := check(hc)
Check(i) ==
    /\ tpc[i] = "check"
    /\ \E ok \in CheckOutcomes[[healthcheck[arg[i]] EXCEPT !.hostname = ""]] :
          /\ success' = [success EXCEPT ![i] = ok]
          /\ ups' = [ups EXCEPT ![arg[i]] = @ + (IF ok THEN 1 ELSE 0)]
    /\ probed' = [probed EXCEPT ![arg[i]] = @ + 1]
    /\ tpc' = [tpc EXCEPT ![i] = "lock"]
    /\ taskFrame
    /\ UNCHANGED <<Sites, wg, lock, reg, before>>

\* Mutant of Lock: the lock is taken without waiting for it to be free
LockNoWait(i) ==
    /\ tpc[i] = "lock"
    /\ lock' = i
    /\ before' = [before EXCEPT ![i] = Sites]
    /\ tpc' = [tpc EXCEPT ![i] = "loadAttempt"]
    /\ taskFrame
    /\ UNCHANGED <<Sites, wg, success, reg, probed, ups>>

\* status.lock.Lock()
Lock(i) ==
    /\ tpc[i] = "lock"
    /\ lock = 0
    /\ lock' = i
    /\ before' = [before EXCEPT ![i] = Sites]
    /\ tpc' = [tpc EXCEPT ![i] = "loadAttempt"]
    /\ taskFrame
    /\ UNCHANGED <<Sites, wg, success, reg, probed, ups>>

\* status.Sites[hc.hostname].Attempt++ : the load
LoadAttempt(i) ==
    /\ tpc[i] = "loadAttempt"
    /\ reg' = [reg EXCEPT ![i] = Sites[host(i)].Attempt]
    /\ tpc' = [tpc EXCEPT ![i] = "storeAttempt"]
    /\ taskFrame
    /\ UNCHANGED <<Sites, wg, lock, success, probed, ups, before>>

\* Mutant of StoreAttempt: Attempt is counted in the else branch of "if success"
StoreAttemptOnlyOnFailure(i) ==
    /\ tpc[i] = "storeAttempt"
    /\ Sites' = [Sites EXCEPT ![host(i)].Attempt = IF success[i] THEN @ ELSE reg[i] + 1]
    /\ reg' = [reg EXCEPT ![i] = 0]
    /\ tpc' = [tpc EXCEPT ![i] = IF success[i] THEN "loadSuccess" ELSE "unlock"]
    /\ taskFrame
    /\ UNCHANGED <<wg, lock, success, probed, ups, before>>

\* status.Sites[hc.hostname].Attempt++ : the store, then "if success"
StoreAttempt(i) ==
    /\ tpc[i] = "storeAttempt"
    /\ Sites' = [Sites EXCEPT ![host(i)].Attempt = reg[i] + 1]
    /\ reg' = [reg EXCEPT ![i] = 0]
    /\ tpc' = [tpc EXCEPT ![i] = IF success[i] THEN "loadSuccess" ELSE "unlock"]
    /\ taskFrame
    /\ UNCHANGED <<wg, lock, success, probed, ups, before>>

\* Mutant of LoadSuccess: the Attempt field is loaded instead of Success
LoadSuccessFromAttempt(i) ==
    /\ tpc[i] = "loadSuccess"
    /\ reg' = [reg EXCEPT ![i] = Sites[host(i)].Attempt]
    /\ tpc' = [tpc EXCEPT ![i] = "storeSuccess"]
    /\ taskFrame
    /\ UNCHANGED <<Sites, wg, lock, success, probed, ups, before>>

\* status.Sites[hc.hostname].Success++ : the load
LoadSuccess(i) ==
    /\ tpc[i] = "loadSuccess"
    /\ reg' = [reg EXCEPT ![i] = Sites[host(i)].Success]
    /\ tpc' = [tpc EXCEPT ![i] = "storeSuccess"]
    /\ taskFrame
    /\ UNCHANGED <<Sites, wg, lock, success, probed, ups, before>>

\* status.Sites[hc.hostname].Success++ : the store
StoreSuccess(i) ==
    /\ tpc[i] = "storeSuccess"
    /\ Sites' = [Sites EXCEPT ![host(i)].Success = reg[i] + 1]
    /\ reg' = [reg EXCEPT ![i] = 0]
    /\ tpc' = [tpc EXCEPT ![i] = "unlock"]
    /\ taskFrame
    /\ UNCHANGED <<wg, lock, success, probed, ups, before>>

\* Mutant of Unlock: the goroutine goes on without releasing the lock
UnlockForgotten(i) ==
    /\ tpc[i] = "unlock"
    /\ before' = [before EXCEPT ![i] = <<>>]
    /\ tpc' = [tpc EXCEPT ![i] = "wgDone"]
    /\ taskFrame
    /\ UNCHANGED <<Sites, wg, lock, success, reg, probed, ups>>

\* status.lock.Unlock()
Unlock(i) ==
    /\ tpc[i] = "unlock"
    /\ lock' = 0
    /\ before' = [before EXCEPT ![i] = <<>>]
    /\ tpc' = [tpc EXCEPT ![i] = "wgDone"]
    /\ taskFrame
    /\ UNCHANGED <<Sites, wg, success, reg, probed, ups>>

\* Mutant of Done: wg.Done() is both deferred and called
DoneCalledTwice(i) ==
    /\ tpc[i] = "wgDone"
    /\ wg' = wg - 2
    /\ tpc' = [tpc EXCEPT ![i] = "done"]
    /\ taskFrame
    /\ UNCHANGED <<Sites, lock, success, reg, probed, ups, before>>

\* Mutant of Done: a goroutine whose probe failed returns without wg.Done()
DoneOnlyOnSuccess(i) ==
    /\ tpc[i] = "wgDone"
    /\ wg' = IF success[i] THEN wg - 1 ELSE wg
    /\ tpc' = [tpc EXCEPT ![i] = "done"]
    /\ taskFrame
    /\ UNCHANGED <<Sites, lock, success, reg, probed, ups, before>>

\* wg.Done(), and the goroutine returns
Done(i) ==
    /\ tpc[i] = "wgDone"
    /\ wg' = wg - 1
    /\ tpc' = [tpc EXCEPT ![i] = "done"]
    /\ taskFrame
    /\ UNCHANGED <<Sites, lock, success, reg, probed, ups, before>>

Task(i) ==
    \/ Check(i)
    \/ Lock(i)
    \/ LoadAttempt(i)
    \/ StoreAttempt(i)
    \/ LoadSuccess(i)
    \/ StoreSuccess(i)
    \/ Unlock(i)
    \/ Done(i)

Main ==
    \/ ValidateEntry
    \/ ValidateDone
    \/ StartCycle
    \/ Spawn
    \/ SpawnDone
    \/ Wait
    \/ Report
    \/ Sleep

Next ==
    \/ Main
    \/ \E i \in 1..MaxDescs : Task(i)

Spec == Init /\ [][Next]_vars

\* The Go scheduler runs every runnable goroutine, and every probe returns
\* (http.Client.Timeout bounds client.Do).
FairSpec ==
    /\ Spec
    /\ WF_vars(Main)
    /\ \A i \in 1..MaxDescs : WF_vars(Task(i))

\* ------------------------------------------------- check, called on its own
ProbeSites == Entries \cup { HC("m", "http://b.example.com/", "BAD METHOD") }

InitCheck ==
    /\ healthcheck = <<>>
    /\ probe \in [site : ProbeSites, resp : Responses, called : {FALSE}, result : {FALSE}]
    /\ InitMain

\* result := check(site)
CallCheck ==
    /\ ~probe.called
    /\ probe' = [probe EXCEPT !.called = TRUE, !.result = check(probe.site, probe.resp)]
    /\ UNCHANGED <<healthcheck, Sites, HealthCheckStatus, mainpc, vi, si, exitCode, cycle, wg, out,
                 reports>>
    /\ UNCHANGED taskVars

NextCheck == CallCheck

CheckSpec == InitCheck /\ [][NextCheck]_vars

\* ------------------------------------------------ Uptime, called on its own
\* Every Result with 0 <= Success <= Attempt <= MaxAttempt: the counters of a
\* bucket after up to MaxAttempt recordings
InitUptime ==
    /\ healthcheck = <<>>
    /\ probe \in { [r |-> [Attempt |-> a, Success |-> s], called |-> FALSE, result |-> 0] :
                     a \in 0..MaxAttempt, s \in 0..MaxAttempt }
    /\ probe.r.Success <= probe.r.Attempt
    /\ InitMain

\* result := r.Uptime()
CallUptime ==
    /\ ~probe.called
    /\ probe' = [probe EXCEPT !.called = TRUE, !.result = Uptime(probe.r)]
    /\ UNCHANGED <<healthcheck, Sites, HealthCheckStatus, mainpc, vi, si, exitCode, cycle, wg, out,
                 reports>>
    /\ UNCHANGED taskVars

NextUptime == CallUptime

UptimeSpec == InitUptime /\ [][NextUptime]_vars

\* ================================================================ claims
\* The host name in the url of descriptor i, and the descriptors whose url
\* names host h
UrlHost(i) == urlParse(healthcheck[i].URL).hostname
OnHost(h) == { i \in Descs : UrlHost(i) = h }

RECURSIVE SumUps(_)
SumUps(S) ==
    IF S = {} THEN 0
    ELSE LET i == CHOOSE x \in S : TRUE IN ups[i] + SumUps(S \ {i})

\* The positions of a goroutine between Lock and Unlock
InCritical(i) ==
    tpc[i] \in {"loadAttempt", "storeAttempt", "loadSuccess", "storeSuccess", "unlock"}

\* C1: in every reachable state, whatever the probe outcomes and the
\* interleaving of the goroutines, every bucket has 0 <= Success <= Attempt.
C1_SuccessWithinAttempt ==
    \A h \in DOMAIN Sites :
        /\ 0 <= Sites[h].Success
        /\ Sites[h].Success <= Sites[h].Attempt

\* Two cycles are over and a bucket shared by two descriptors holds both
\* successes and failures.
C1_Witness ==
    /\ mainpc = "sleep"
    /\ cycle = 2
    /\ \E h \in DOMAIN Sites :
          /\ Sites[h].Attempt = 4
          /\ Sites[h].Success > 0
          /\ Sites[h].Success < Sites[h].Attempt

\* C2: once k cycles have passed their barrier, every bucket h holds
\* Attempt = k * (number of descriptors on host h) and Success = the number
\* of probes of those descriptors that returned true; and when all the
\* descriptors have distinct hosts and every probe of the first cycle
\* succeeded, there is one bucket per descriptor, each 1/1 with uptime 100.
C2_NoLostUpdate ==
    mainpc \in {"report", "sleep"} =>
        /\ \A i \in Descs : UrlHost(i) \in DOMAIN Sites
        /\ \A h \in DOMAIN Sites :
              /\ Sites[h].Attempt = cycle * Cardinality(OnHost(h))
              /\ Sites[h].Success = SumUps(OnHost(h))
        /\ ( /\ cycle = 1
             /\ \A i \in Descs : OnHost(UrlHost(i)) = {i}
             /\ \A i \in Descs : ups[i] = 1 )
           => /\ Cardinality(DOMAIN Sites) = Len(healthcheck)
              /\ \A h \in DOMAIN Sites :
                    /\ Sites[h] = [Attempt |-> 1, Success |-> 1]
                    /\ Uptime(Sites[h]) = 100

\* Two descriptors on one host have been through two cycles with three
\* probes up and one down.
C2_Witness ==
    /\ mainpc = "sleep"
    /\ cycle = 2
    /\ Len(healthcheck) = 2
    /\ OnHost("a.example.com") = {1, 2}
    /\ ups[1] = 2
    /\ ups[2] = 1
    /\ Sites["a.example.com"] = [Attempt |-> 4, Success |-> 3]

\* C3: when exactly two descriptors have the same host in their url and, in
\* the first cycle, one probe returned true and the other false, the bucket
\* of that host holds Attempt = 2, Success = 1 at the report, and the report
\* prints 50 for it, whichever goroutine recorded first.
C3_SharedBucket ==
    \A i, j \in Descs :
        LET h == UrlHost(i) IN
        ( /\ mainpc \in {"report", "sleep"}
          /\ cycle = 1
          /\ OnHost(h) = {i, j}
          /\ ups[i] = 1
          /\ ups[j] = 0 )
        => /\ h \in DOMAIN Sites
           /\ Sites[h] = [Attempt |-> 2, Success |-> 1]
           /\ Uptime(Sites[h]) = 50
           /\ mainpc = "sleep" => <<h, 50>> \in DOMAIN out

\* The first report is printed: the second descriptor on a.example.com was up
\* and the first was down.
C3_Witness ==
    /\ mainpc = "sleep"
    /\ cycle = 1
    /\ OnHost("a.example.com") = {1, 2}
    /\ ups[1] = 0
    /\ ups[2] = 1
    /\ <<"a.example.com", 50>> \in DOMAIN out

\* C4: while main is at the report loop or in the sleep, every goroutine
\* launched in this cycle has returned after recording its outcome: none is
\* at a position from which it still writes a counter, the lock is free and
\* the WaitGroup counter is zero.
C4_Barrier ==
    mainpc \in {"report", "sleep"} =>
        /\ \A i \in Descs : tpc[i] = "done" /\ probed[i] = cycle
        /\ lock = 0
        /\ wg = 0

\* Main is at the report loop of the second cycle with two descriptors.
C4_Witness ==
    /\ mainpc = "report"
    /\ cycle = 2
    /\ Len(healthcheck) = 2

\* C5: at most one goroutine is between Lock and Unlock, and a goroutine at
\* the load or store of a counter holds the lock.
C5_MutualExclusion ==
    \A i, j \in 1..MaxDescs :
        /\ (InCritical(i) /\ InCritical(j)) => i = j
        /\ InCritical(i) => lock = i

\* One goroutine is about to store Attempt while another one waits for the lock.
C5_Witness ==
    \E i, j \in Descs :
        /\ i # j
        /\ tpc[i] = "storeAttempt"
        /\ tpc[j] = "lock"

\* C6: when a goroutine releases the lock, the bucket of its hostname holds
\* Attempt one higher than when it acquired the lock, Success one higher if
\* its probe returned true and unchanged if not, and every other bucket is as
\* it was; and no step ever removes a bucket or lowers a counter.
C6_RecordAttempt ==
    [][ /\ \A i \in 1..MaxDescs :
              (tpc[i] = "unlock" /\ tpc'[i] = "wgDone") =>
                  Sites = [before[i] EXCEPT
                             ![host(i)] = [Attempt |-> @.Attempt + 1,
                                           Success |-> @.Success + (IF success[i] THEN 1 ELSE 0)]]
        /\ \A h \in DOMAIN Sites :
              /\ h \in DOMAIN Sites'
              /\ Sites'[h].Attempt >= Sites[h].Attempt
              /\ Sites'[h].Success >= Sites[h].Success
      ]_vars

\* A goroutine whose probe returned true has released the lock, with a second
\* bucket in the store.
C6_Witness ==
    \E i \in Descs :
        /\ tpc[i] = "wgDone"
        /\ success[i]
        /\ Cardinality(DOMAIN Sites) = 2
        /\ Sites[host(i)].Success = 2

\* C7 (specification CheckSpec): check returns a boolean, and it returns true
\* exactly when the request can be built and sent, a response (not a transport
\* error) arrives before the 500 ms timer fires, and its status is in
\* 200..299.  A response arriving after 500 ms gives false; one arriving at
\* exactly 500 ms races with the timer and may give either.
C7_Classification ==
    probe.called =>
        LET site == probe.site
            resp == probe.resp
            noRequest == site.Method = "BAD METHOD" \/ site.URL = "http://[::1"
            notSent == site.URL \in {"", "/health"}
            answered == resp.transport = "response"
            status2xx == resp.status \in 200..299
        IN  /\ probe.result \in BOOLEAN
            /\ probe.result =>
                  /\ ~noRequest /\ ~notSent /\ answered /\ status2xx
                  /\ resp.latency <= responseTimeout
            /\ ( /\ ~noRequest /\ ~notSent /\ answered /\ status2xx
                 /\ resp.latency < responseTimeout ) => probe.result
            /\ resp.latency > responseTimeout => ~probe.result

\* check has returned true for a POST answered with 299 after 499 ms.
C7_Witness ==
    /\ probe.called
    /\ probe.result
    /\ probe.site.Method = "POST"
    /\ probe.resp.status = 299
    /\ probe.resp.latency = 499

\* C8 (specification FairSpec): a failed probe stops nothing.  Every cycle
\* that has started its fan-out reaches its report and its sleep with every
\* descriptor probed and recorded in that cycle, whatever the outcomes; the
\* process never exits once cycling; and after the sleep the next cycle
\* starts (up to MaxCycles, where the model stops).
C8_FailureDoesNotAbort ==
    /\ [](cycle >= 1 => mainpc # "exited" /\ exitCode = 0)
    /\ (mainpc = "spawn")
          ~> ( /\ mainpc = "sleep"
               /\ reports = cycle
               /\ \A i \in Descs : probed[i] = cycle /\ tpc[i] = "done"
               /\ \A h \in DOMAIN Sites : Sites[h].Attempt = cycle * Cardinality(OnHost(h)) )
    /\ (mainpc = "sleep" /\ cycle < MaxCycles) ~> (mainpc = "spawn" /\ reports < cycle)

\* The second cycle starts after a first cycle in which one probe failed and
\* another succeeded.
C8_Witness ==
    /\ cycle = 2
    /\ mainpc = "spawn"
    /\ reports = 1
    /\ \E i, j \in Descs : ups[i] = 0 /\ ups[j] = 1

\* C9: with an entry whose name or url is empty anywhere in the list, main
\* never leaves the validation loop other than by os.Exit with a non-zero
\* code: the loop never steps past such an entry, no cycle starts, no
\* goroutine is launched and check is never called.
C9_MissingFieldExits ==
    (\E k \in Descs : healthcheck[k].Name = "" \/ healthcheck[k].URL = "") =>
        /\ mainpc \in {"validate", "exited"}
        /\ mainpc = "exited" => exitCode # 0
        /\ \A k \in 1..(vi - 1) : healthcheck[k].Name # "" /\ healthcheck[k].URL # ""
        /\ cycle = 0
        /\ \A i \in 1..MaxDescs : tpc[i] = "idle" /\ probed[i] = 0

\* Main has exited on the second entry, which has no url, after accepting the
\* first one.
C9_Witness ==
    /\ mainpc = "exited"
    /\ exitCode = -1
    /\ Len(healthcheck) = 2
    /\ healthcheck[2].URL = ""
    /\ vi = 2
    /\ DOMAIN Sites # {}

\* C10: with a descriptor whose url does not parse, or parses without a host
\* name, main never leaves the validation loop other than by os.Exit, and no
\* bucket has the empty hostname as its key.
C10_NoHostnameRefused ==
    (\E k \in Descs : urlParse(healthcheck[k].URL).err
                        \/ urlParse(healthcheck[k].URL).hostname = "") =>
        /\ mainpc \in {"validate", "exited"}
        /\ cycle = 0
        /\ "" \notin DOMAIN Sites

\* C11 (specification UptimeSpec): Uptime returns 0 for Attempt = 0 and
\* otherwise 100 * Success / Attempt rounded to the nearest integer, halves
\* away from zero; that is 100 for Success = Attempt > 0, a value in 0..100
\* always, and 80 for 8 successes in 10 attempts.
C11_UptimeRounding ==
    probe.called =>
        LET a == probe.r.Attempt
            s == probe.r.Success
        IN  /\ a = 0 => probe.result = 0
            /\ a > 0 => probe.result = (200 * s + a) \div (2 * a)
            /\ (a > 0 /\ s = a) => probe.result = 100
            /\ probe.result \in 0..100
            /\ (a = 10 /\ s = 8) => probe.result = 80

\* C12: a goroutine is launched only by the fan-out loop, only after the
\* report of the previous cycle, and only while every goroutine that is not
\* of this cycle's fan-out has returned; the report loop runs only when all
\* the goroutines have returned; and main moves through a cycle in the order
\* fan-out, barrier, report, sleep.
C12_CyclesDoNotOverlap ==
    [][ /\ \A i \in 1..MaxDescs :
              (tpc[i] # "check" /\ tpc'[i] = "check") =>
                  /\ mainpc = "spawn"
                  /\ i = si
                  /\ reports = cycle - 1
                  /\ \A j \in 1..MaxDescs : j < si \/ tpc[j] \in {"idle", "done"}
        /\ reports' # reports =>
              /\ reports' = reports + 1
              /\ \A j \in Descs : tpc[j] = "done"
        /\ mainpc' # mainpc =>
              <<mainpc, mainpc'>> \in { <<"validate", "cycle">>, <<"validate", "exited">>,
                                        <<"cycle", "spawn">>, <<"spawn", "wait">>,
                                        <<"wait", "report">>, <<"report", "sleep">>,
                                        <<"sleep", "cycle">> }
      ]_vars

\* The second goroutine of the second cycle has just been launched, after the
\* first report.
C12_Witness ==
    /\ cycle = 2
    /\ mainpc = "spawn"
    /\ si = 3
    /\ tpc[2] = "check"
    /\ reports = 1

\* C13: the report loop has run once in every cycle that has passed its
\* barrier and not yet in the one under way; what it printed is one line for
\* each host named by a descriptor, each once, carrying the uptime of a bucket
\* that counts every probe of every cycle so far, the last one included.
C13_ReportOncePerCycle ==
    /\ mainpc \in {"spawn", "wait", "report"} => reports = cycle - 1
    /\ mainpc \in {"sleep", "cycle"} => reports = cycle
    /\ mainpc = "sleep" =>
          /\ DOMAIN out =
                { <<h, Uptime([Attempt |-> cycle * Cardinality(OnHost(h)),
                               Success |-> SumUps(OnHost(h))])>> :
                     h \in { UrlHost(i) : i \in Descs } }
          /\ \A line \in DOMAIN out : out[line] = 1
          /\ Cardinality(DOMAIN out) = Cardinality({ UrlHost(i) : i \in Descs })

\* The second report has printed one line, 75, for the host of two
\* descriptors.
C13_Witness ==
    /\ mainpc = "sleep"
    /\ reports = 2
    /\ Len(healthcheck) = 2
    /\ ups[1] + ups[2] = 3
    /\ out = (<<"a.example.com", 75>> :> 1)

\* C14: goroutines are launched for the descriptors of the list only, each
\* with the descriptor of its own iteration; a descriptor has been probed
\* once in every cycle before the current one and at most once in the current
\* one, exactly once when its goroutine is past check and when the cycle
\* reaches its report, whether the probe succeeded or failed.
C14_ProbedOncePerCycle ==
    /\ \A i \in 1..MaxDescs :
          /\ tpc[i] # "idle" => i \in Descs /\ arg[i] = i
          /\ i \notin Descs => probed[i] = 0 /\ ups[i] = 0
          /\ (i \in Descs /\ cycle >= 1) => probed[i] \in {cycle - 1, cycle}
          /\ tpc[i] = "check" => probed[i] = cycle - 1
          /\ tpc[i] \notin {"idle", "check", "done"} => probed[i] = cycle
          /\ ups[i] <= probed[i]
    /\ mainpc \in {"report", "sleep"} => \A i \in Descs : probed[i] = cycle

\* After two cycles the first descriptor has been probed twice and failed
\* twice, the second has been probed twice and succeeded twice.
C14_Witness ==
    /\ mainpc = "sleep"
    /\ Len(healthcheck) = 2
    /\ probed = [i \in 1..MaxDescs |-> IF i <= 2 THEN 2 ELSE 0]
    /\ ups[1] = 0
    /\ ups[2] = 2

\* C15 (specification FairSpec): once the validation loop is over, some step
\* is always possible (up to the sleep of cycle MaxCycles, where the model
\* stops); every wg.Wait() returns; and from the first cycle on, the process
\* reaches the report of cycle MaxCycles with every descriptor probed
\* MaxCycles times.
C15_Liveness ==
    /\ []( ( /\ mainpc \notin {"validate", "exited"}
             /\ ~(mainpc = "sleep" /\ cycle = MaxCycles) ) => ENABLED Next )
    /\ (mainpc = "wait") ~> (mainpc = "report")
    /\ (mainpc = "cycle" /\ cycle = 0)
          ~> ( /\ reports = MaxCycles
               /\ \A i \in Descs : probed[i] = MaxCycles )

\* Main is at wg.Wait() in the last cycle, with two goroutines still to
\* record.
C15_Witness ==
    /\ mainpc = "wait"
    /\ cycle = MaxCycles
    /\ wg = 2

\* C16: from the end of the validation loop on, the keys of the store are
\* exactly the host names of the descriptors' urls, one bucket for each
\* however many descriptors name it; before the first cycle every bucket is
\* 0/0; and once cycling no step changes the set of keys or puts a fresh
\* bucket in place of one that has counted.
C16_StoreKeys ==
    /\ []( mainpc \notin {"validate", "exited"} =>
             /\ DOMAIN Sites = { UrlHost(i) : i \in Descs }
             /\ cycle = 0 => \A h \in DOMAIN Sites : Sites[h] = [Attempt |-> 0, Success |-> 0] )
    /\ [][ mainpc \notin {"validate", "exited"} =>
             /\ DOMAIN Sites' = DOMAIN Sites
             /\ \A h \in DOMAIN Sites :
                   Sites'[h] = [Attempt |-> 0, Success |-> 0] => Sites'[h] = Sites[h]
         ]_vars

\* The validation loop has accepted two descriptors on one host, and the first
\* cycle has not started.
C16_Witness ==
    /\ mainpc = "cycle"
    /\ cycle = 0
    /\ Len(healthcheck) = 2
    /\ DOMAIN Sites = {"a.example.com"}
    /\ Sites["a.example.com"] = [Attempt |-> 0, Success |-> 0]

\* C17: when main is at the report loop, every bucket has at least one
\* descriptor and Attempt >= 1, so no Uptime call of a report takes the
\* Attempt = 0 branch.
C17_AttemptsAtReport ==
    mainpc = "report" =>
        \A h \in DOMAIN Sites :
            /\ OnHost(h) # {}
            /\ Sites[h].Attempt >= 1

\* Main is at the first report with two buckets, each with one attempt.
C17_Witness ==
    /\ mainpc = "report"
    /\ cycle = 1
    /\ Cardinality(DOMAIN Sites) = 2
    /\ \A h \in DOMAIN Sites : Sites[h].Attempt = 1

\* C18: the WaitGroup counter is never negative; during the fan-out and the
\* wait it is the number of descriptors less the goroutines of this cycle
\* that have returned, so it is zero exactly when all of them have recorded
\* and returned; a goroutine about to call Done does not hold the lock; past
\* the barrier the counter is zero and the lock is free; and some step is
\* always possible (up to the sleep of cycle MaxCycles, where the model
\* stops), also with no descriptor at all.
C18_WaitGroupSound ==
    LET returned == { i \in Descs : tpc[i] = "done" /\ probed[i] = cycle } IN
    /\ wg >= 0
    /\ mainpc \in {"spawn", "wait"} =>
          /\ wg = Len(healthcheck) - Cardinality(returned)
          /\ wg = 0 <=> returned = Descs
          /\ \A i \in returned :
                Sites[healthcheck[i].hostname].Attempt >= cycle
    /\ \A i \in 1..MaxDescs : tpc[i] = "wgDone" => lock # i
    /\ mainpc \in {"cycle", "report", "sleep"} => wg = 0 /\ lock = 0
    /\ ( /\ mainpc # "exited"
         /\ ~(mainpc = "sleep" /\ cycle = MaxCycles) ) => ENABLED Next

\* Main waits with the counter at one: one goroutine has returned and the
\* other has released the lock and is about to call Done.
C18_Witness ==
    /\ mainpc = "wait"
    /\ wg = 1
    /\ lock = 0
    /\ \E i, j \in Descs : tpc[i] = "done" /\ tpc[j] = "wgDone"

\* C19: at every report, the map of the sequential variant, run over the same
\* descriptors with the same outcome of each probe, has the keys of the
\* store, the same count as Attempt and the same success as Success under
\* every key, and the sequential variant's percentage for each key is the one
\* printed.
C19_RefinesSequential ==
    mainpc = "sleep" =>
        /\ DOMAIN HealthCheckStatus = DOMAIN Sites
        /\ \A h \in DOMAIN Sites :
              /\ HealthCheckStatus[h].count = Sites[h].Attempt
              /\ HealthCheckStatus[h].success = Sites[h].Success
        /\ out = [line \in { <<h, SeqUptime(HealthCheckStatus[h])>> :
                                h \in DOMAIN HealthCheckStatus } |-> 1]

\* After two cycles of two descriptors on one host, both variants hold 4
\* attempts and 2 successes.
C19_Witness ==
    /\ mainpc = "sleep"
    /\ cycle = 2
    /\ "a.example.com" \in DOMAIN HealthCheckStatus
    /\ HealthCheckStatus["a.example.com"] = [count |-> 4, success |-> 2]
    /\ Sites["a.example.com"] = [Attempt |-> 4, Success |-> 2]

====
